---- MODULE Spec2Model ----
(***************************************************************************)
(* Network state manager of the smartnode (shared/services/state/manager.go)*)
(* and the state cache read by the metrics collectors.                      *)
(*                                                                          *)
(* uint64 values that can wrap (the locator's targetSlot, the seconds since *)
(* genesis of GetHeadState) are kept at their full 64-bit width as 8 limbs  *)
(* of 8 bits, least significant limb first, because the model checker's own *)
(* integers are 32 bits wide.                                               *)
(***************************************************************************)
EXTENDS Integers, Sequences, FiniteSets, TLC

(***************************************************************************)
(* Bounds of the model.                                                     *)
(***************************************************************************)
MaxSlotsPerEpoch == 2
MaxEpoch == 1
MaxSlot == 3
MaxProbes == 6
MaxOffset == 3
MaxSets == 2
MaxSecondsPerSlot == 2
NumReaders == 2
NumCallers == 2
MaxEth == 2

(***************************************************************************)
(* uint64 arithmetic.                                                       *)
(***************************************************************************)
Base == 256
Limbs == 8

U64 == [1..Limbs -> 0..(Base - 1)]

Zero == <<0, 0, 0, 0, 0, 0, 0, 0>>

One == <<1, 0, 0, 0, 0, 0, 0, 0>>

\* A natural number below 2^31 as a uint64.
U64FromNat(n) ==
    <<n % Base, (n \div Base) % Base, (n \div (Base * Base)) % Base,
      (n \div (Base * Base * Base)) % Base, 0, 0, 0, 0>>

\* Whether a uint64 is below 2^31, so that it is one of the checker's integers.
U64IsSmall(x) == (\A i \in 5..Limbs : x[i] = 0) /\ x[4] < 128

\* The value of a uint64 below 2^31.
U64ToNat(x) == x[1] + Base * (x[2] + Base * (x[3] + Base * x[4]))

\* Limbs i..8 of a + b + carry, the carry out of limb 8 dropped.
RECURSIVE AddFrom(_, _, _, _)
AddFrom(a, b, carry, i) ==
    IF i > Limbs THEN <<>>
    ELSE <<(a[i] + b[i] + carry) % Base>>
         \o AddFrom(a, b, (a[i] + b[i] + carry) \div Base, i + 1)

\* a + b modulo 2^64.
U64Add(a, b) == AddFrom(a, b, 0, 1)

\* The bitwise complement of b.
U64Not(b) == [i \in 1..Limbs |-> (Base - 1) - b[i]]

\* a - b modulo 2^64 (a plus the two's complement of b).
U64Sub(a, b) == AddFrom(a, U64Not(b), 1, 1)

\* The sum of a[i] * b[j] over i + j = k + 1, for i up to n.
RECURSIVE ColumnSum(_, _, _, _)
ColumnSum(a, b, k, n) ==
    IF n = 0 THEN 0 ELSE a[n] * b[k + 1 - n] + ColumnSum(a, b, k, n - 1)

\* Limbs k..8 of a * b, given the carry into limb k.
RECURSIVE MulFrom(_, _, _, _)
MulFrom(a, b, carry, k) ==
    IF k > Limbs THEN <<>>
    ELSE <<(ColumnSum(a, b, k, k) + carry) % Base>>
         \o MulFrom(a, b, (ColumnSum(a, b, k, k) + carry) \div Base, k + 1)

\* a * b modulo 2^64.
U64Mul(a, b) == MulFrom(a, b, 0, 1)

\* Limbs 1..i of floor(x / d), given the remainder left by the limbs above i.
RECURSIVE DivFrom(_, _, _, _)
DivFrom(x, d, rem, i) ==
    IF i = 0 THEN <<>>
    ELSE DivFrom(x, d, (rem * Base + x[i]) % d, i - 1)
         \o <<(rem * Base + x[i]) \div d>>

\* floor(x / d) for a divisor 0 < d < 2^23 (long division, top limb first).
U64Div(x, d) == DivFrom(x, d, 0, Limbs)

RECURSIVE U64LessFrom(_, _, _)
U64LessFrom(a, b, i) ==
    IF i = 0 THEN FALSE
    ELSE IF a[i] # b[i] THEN a[i] < b[i]
    ELSE U64LessFrom(a, b, i - 1)

U64Less(a, b) == U64LessFrom(a, b, Limbs)

U64Leq(a, b) == a = b \/ U64Less(a, b)

(***************************************************************************)
(* Values.                                                                  *)
(***************************************************************************)
GenesisTimes == {MaxOffset, 1000}

SecondsPerSlotValues == (0..MaxSecondsPerSlot) \cup {12}

\* The answers the consensus client can give to GetEth2Config.
Eth2Configs ==
    [GenesisTime : GenesisTimes,
     SecondsPerSlot : SecondsPerSlotValues,
     SlotsPerEpoch : 0..MaxSlotsPerEpoch]

\* beacon.Eth2Config{}, the zero value the manager struct is created with.
ZeroConfig == [GenesisTime |-> 0, SecondsPerSlot |-> 0, SlotsPerEpoch |-> 0]

\* The timestamps of the latest execution header, around the genesis time g.
HeaderTimes(g) == ((g - MaxOffset)..(g + MaxOffset)) \cup {1600}

\* The patterns of existing slots of the consensus chain.
Chains == SUBSET (0..MaxSlot)

\* state.NetworkDetails of a nil state.
NoDetails == [PricesBlock |-> Zero, LatestReportablePricesBlock |-> Zero]

\* (*NetworkState)(nil)
NilState == [nil |-> TRUE, BeaconSlotNumber |-> Zero, ElBlockNumber |-> Zero,
             NetworkDetails |-> NoDetails]

\* beacon.BeaconBlock{}
EmptyBlock == [Slot |-> Zero, HasExecutionPayload |-> FALSE]

\* The sub-reads of one snapshot build.
Reads == {"contracts", "beacon"}

NoReturn == [state |-> NilState, block |-> EmptyBlock, err |-> "nil", fault |-> FALSE]

NoInput == [Time |-> 0, headerErr |-> FALSE, convert |-> "none", slotNumber |-> Zero,
            buildErr |-> FALSE, FinalizedEpoch |-> 0, blocks |-> {}, headErr |-> FALSE]

\* float64(-1), the value a collector's result variable starts with.
Sentinel == -1

\* The four result variables of the ODAO collector, before they are assigned.
ZeroFloats == [blockNumberFloat |-> 0, pricesBlockFloat |-> 0,
               effectiveRplStakeBlockFloat |-> 0, latestReportableBlockFloat |-> 0]

\* The four result variables as collectImpl_Legacy declares them.
SentinelFloats == [blockNumberFloat |-> Sentinel, pricesBlockFloat |-> Sentinel,
                   effectiveRplStakeBlockFloat |-> Sentinel,
                   latestReportableBlockFloat |-> Sentinel]

Readers == 1..NumReaders

Callers == 1..NumCallers

\* The three tasks of collectImpl_Legacy, in the order of their wg.Go calls.
Tasks == 1..3

\* A read that failed.
Failed == [ok |-> FALSE, value |-> 0]

\* The goroutine that calls the operations of the manager one after the other.
Sequential == NumCallers + 1

IdleCaller == [pc |-> "idle", slotNumber |-> Zero, buildErr |-> FALSE,
               state |-> NilState, err |-> "nil"]

IdleLegacy == [pc |-> "idle", task |-> [i \in Tasks |-> "none"],
               answers |-> [i \in Tasks |-> Failed], floats |-> ZeroFloats,
               writers |-> [v \in DOMAIN ZeroFloats |-> {}], order |-> <<>>,
               err |-> 0, queries |-> 0, channel |-> <<>>, logged |-> <<>>]

\* A read of an amount that failed, and a read of the queue capacity that failed.
NoAmount == [ok |-> FALSE, value |-> Zero]

NoCapacity == [ok |-> FALSE, Total |-> Zero, Effective |-> Zero]

\* A Collect call of the ODAO collector that has not started; lg holds the
\* locals of its legacy collection, floats those of its atlas collection.
IdleReader == [pc |-> "idle", path |-> "none", latestState |-> NilState,
               lg |-> IdleLegacy, floats |-> ZeroFloats, channel |-> <<>>,
               queries |-> 0, logged |-> <<>>]

NoDemand == [pc |-> "idle",
             answers |-> [balance |-> NoAmount, excess |-> NoAmount,
                          capacity |-> NoCapacity],
             floats |-> [balanceFloat |-> 0, excessFloat |-> 0,
                         totalFloat |-> 0, effectiveFloat |-> 0],
             channel |-> <<>>, logged |-> <<>>]

\* beacon.Eth2Config with the fields of the epoch rule: the clients fill
\* SecondsPerEpoch with SecondsPerSlot * SlotsPerEpoch.
EpochConfig(c, genesisEpoch) ==
    [GenesisEpoch |-> genesisEpoch,
     GenesisTime |-> c.GenesisTime,
     SecondsPerSlot |-> c.SecondsPerSlot,
     SlotsPerEpoch |-> c.SlotsPerEpoch,
     SecondsPerEpoch |-> c.SecondsPerSlot * c.SlotsPerEpoch]

NoEpochCall == [called |-> FALSE, config |-> EpochConfig(ZeroConfig, 0), time |-> 0,
                returned |-> FALSE, epoch |-> Zero, panicked |-> FALSE]

(***************************************************************************)
(* State.                                                                   *)
(***************************************************************************)
VARIABLES
    mgr,            \* "none" before construction, then "ok" or "failed"
    BeaconConfig,   \* m.BeaconConfig
    log,            \* whether m.log is a logger (TRUE) or nil (FALSE)
    pc,             \* "idle", "header", "getState", "locating", "done", "panicked"
    call,           \* the operation last called on the manager
    input,          \* what the clients answer during that call
    targetSlot,     \* the locator's local targetSlot
    probes,         \* the GetBeaconBlock calls of the current locator call
    skips,          \* the slots of the skip lines logged by the current call
    configFetches,  \* number of GetEth2Config calls
    headerRequests, \* number of HeaderByNumber calls of the current call
    builderCalls,   \* the slots CreateNetworkState was called with by the call
    ret,            \* what the last call returned
    cache,          \* the snapshot held by the state locker
    written,        \* the snapshots passed to UpdateState, in order
    got,            \* what the last GetState returned
    gotAfter,       \* the number of updates that preceded that GetState
    path,           \* the path the last Collect took: "legacy" or "atlas"
    rd,             \* the concurrent Collect calls of the ODAO collector
    callers,        \* the concurrent getState calls on the manager
    updateLock,     \* m.updateLock: 0 when free, else the caller that holds it
    legacy,         \* one collectImpl_Legacy call and its three tasks
    demand,         \* the last DemandCollector.Collect call
    epochCall       \* the last epochAt call

vars == <<mgr, BeaconConfig, log, pc, call, input, targetSlot, probes, skips,
          configFetches, headerRequests, builderCalls, ret, cache, written, got,
          gotAfter, path, rd, callers, updateLock, legacy, demand, epochCall>>

\* The state of the parts that run beside the sequentially called manager.
sideVars == <<rd, callers, updateLock, legacy, demand, epochCall>>

cacheVars == <<cache, written, got, gotAfter, path>>

managerVars == <<mgr, BeaconConfig, log, pc, call, input, targetSlot, probes, skips,
                 configFetches, headerRequests, builderCalls, ret>>

\* The Collect calls, getState calls, legacy collection, demand collection and
\* epochAt call before any of them has started.
InitSide ==
    /\ rd = [r \in Readers |-> IdleReader]
    /\ callers = [p \in Callers \cup {Sequential} |-> IdleCaller]
    /\ updateLock = 0
    /\ legacy = IdleLegacy
    /\ demand = NoDemand
    /\ epochCall = NoEpochCall

Init ==
    /\ mgr = "none"
    /\ BeaconConfig = ZeroConfig
    /\ log = FALSE
    /\ pc = "idle"
    /\ call = "none"
    /\ input = NoInput
    /\ targetSlot = Zero
    /\ probes = <<>>
    /\ skips = <<>>
    /\ configFetches = 0
    /\ headerRequests = 0
    /\ builderCalls = <<>>
    /\ ret = NoReturn
    /\ cache = NilState
    /\ written = <<>>
    /\ got = NilState
    /\ gotAfter = 0
    /\ path = "none"
    /\ InitSide

(***************************************************************************)
(* NewNetworkStateManager: the config is fetched once; a failed fetch gives *)
(* no manager. The values of the config are not examined.                   *)
(***************************************************************************)
NewNetworkStateManager(cfg, err, logger) ==
    /\ mgr = "none"
    /\ pc = "idle"
    /\ call' = "NewNetworkStateManager"
    /\ configFetches' = configFetches + 1
    /\ log' = logger
    /\ IF err
       THEN /\ mgr' = "failed"
            /\ ret' = [NoReturn EXCEPT !.err = "config"]
            /\ BeaconConfig' = ZeroConfig
       ELSE /\ mgr' = "ok"
            /\ ret' = NoReturn
            /\ BeaconConfig' = cfg
    /\ pc' = "done"
    /\ UNCHANGED <<input, targetSlot, probes, skips, headerRequests,
                   builderCalls, cacheVars, sideVars>>

(***************************************************************************)
(* The snapshot builder: one NetworkState for the slot, or an error when any*)
(* of its reads failed.                                                     *)
(***************************************************************************)
\* The execution block the builder resolves for a slot: the chain of the model
\* has the execution block n at slot n.
ElBlockOf(slotNumber) == slotNumber

\* The network details the builder reads at a slot: on the chain of the model
\* prices are reported at every block, and every block is reportable.
NetworkDetailsOf(slotNumber) ==
    [PricesBlock |-> ElBlockOf(slotNumber),
     LatestReportablePricesBlock |-> ElBlockOf(slotNumber)]

CreateNetworkState(slotNumber, failedReads) ==
    IF failedReads # {}
    THEN [state |-> NilState, err |-> "build"]
    ELSE [state |-> [nil |-> FALSE, BeaconSlotNumber |-> slotNumber,
                     ElBlockNumber |-> ElBlockOf(slotNumber),
                     NetworkDetails |-> NetworkDetailsOf(slotNumber)],
          err |-> "nil"]

\* getState with the builder's error dropped.
getStateDroppingError(slotNumber, failedReads) ==
    [state |-> CreateNetworkState(slotNumber, failedReads).state, err |-> "nil"]

\* getState: the builder's state, or nil with the builder's error.
getState(slotNumber, failedReads) ==
    LET built == CreateNetworkState(slotNumber, failedReads)
    IN  IF built.err # "nil"
        THEN [state |-> NilState, err |-> built.err]
        ELSE [state |-> built.state, err |-> "nil"]

(***************************************************************************)
(* The steps of getState: the call builds its snapshot, then takes          *)
(* m.updateLock and returns, the deferred Unlock freeing the mutex.         *)
(***************************************************************************)
\* The deferred Unlock is missing: the mutex stays with the caller.
unlockForgotten(lock, p) == lock

\* defer m.updateLock.Unlock() of caller p, run when its getState returns.
unlockOnReturn(lock, p) == IF lock = p THEN 0 ELSE lock

\* getState is entered: state.CreateNetworkState starts its remote reads.
enteredGetState(slotNumber) ==
    [IdleCaller EXCEPT !.pc = "building", !.slotNumber = slotNumber]

\* The build of call p ends: with an error the call returns it at once,
\* otherwise the call goes on to m.updateLock.Lock().
GetStateBuilt(p, failedReads) ==
    /\ callers[p].pc = "building"
    /\ LET r == getState(callers[p].slotNumber, failedReads)
       IN  callers' = [callers EXCEPT
                          ![p].pc = IF r.err # "nil" THEN "returned" ELSE "locking",
                          ![p].buildErr = (failedReads # {}),
                          ![p].state = r.state,
                          ![p].err = r.err]
    /\ UNCHANGED <<managerVars, cacheVars, rd, updateLock, legacy, demand, epochCall>>

\* m.updateLock.Lock() of call p: it waits until the mutex is free.
GetStateLock(p) ==
    /\ callers[p].pc = "locking"
    /\ updateLock = 0
    /\ updateLock' = p
    /\ callers' = [callers EXCEPT ![p].pc = "locked"]
    /\ UNCHANGED <<managerVars, cacheVars, rd, legacy, demand, epochCall>>

\* return state, nil of call p, with the deferred Unlock.
GetStateUnlock(p) ==
    /\ callers[p].pc = "locked"
    /\ updateLock' = unlockOnReturn(updateLock, p)
    /\ callers' = [callers EXCEPT ![p].pc = "returned"]
    /\ UNCHANGED <<managerVars, cacheVars, rd, legacy, demand, epochCall>>

\* getState has returned to the operation that the sequential caller called,
\* and the operation returns what it returned.
GetStateReturned ==
    /\ pc = "getState"
    /\ callers[Sequential].pc = "returned"
    /\ ret' = [NoReturn EXCEPT !.state = callers[Sequential].state,
                               !.err = callers[Sequential].err]
    /\ input' = [input EXCEPT !.buildErr = callers[Sequential].buildErr]
    /\ pc' = "done"
    /\ callers' = [callers EXCEPT ![Sequential] = IdleCaller]
    /\ UNCHANGED <<mgr, BeaconConfig, log, call, targetSlot, probes, skips,
                   configFetches, headerRequests, builderCalls, cacheVars, rd,
                   updateLock, legacy, demand, epochCall>>

(***************************************************************************)
(* GetHeadState.                                                            *)
(***************************************************************************)
\* uint64(latestBlockTime.Sub(genesisTime).Seconds()): the difference is a
\* float64; the conversion of a negative float64 to uint64 depends on the
\* build: it wraps through int64 ("wrap") or saturates at 0 ("saturate").
secondsSinceGenesis(cfg, time, convert) ==
    IF time >= cfg.GenesisTime
    THEN U64FromNat(time - cfg.GenesisTime)
    ELSE IF convert = "wrap"
         THEN U64Sub(Zero, U64FromNat(cfg.GenesisTime - time))
         ELSE Zero

\* The division rounded up instead of down.
headTargetSlotRoundedUp(cfg, time, convert) ==
    U64Div(U64Add(secondsSinceGenesis(cfg, time, convert),
                  U64FromNat(cfg.SecondsPerSlot - 1)),
           cfg.SecondsPerSlot)

\* targetSlot := secondsSinceGenesis / m.BeaconConfig.SecondsPerSlot
headTargetSlot(cfg, time, convert) ==
    U64Div(secondsSinceGenesis(cfg, time, convert), cfg.SecondsPerSlot)

\* GetHeadState going on to getState after a failed header fetch.
headStateIgnoringHeaderErr(cfg, headerErr, time, convert) ==
    IF cfg.SecondsPerSlot = 0
    THEN [err |-> "nil", fault |-> TRUE, built |-> <<>>]
    ELSE [err |-> "nil", fault |-> FALSE,
          built |-> <<headTargetSlot(cfg, time, convert)>>]

\* What GetHeadState does with the header's answer: the header error wrapped,
\* a division fault for a zero slot duration, or getState for the slot.
headState(cfg, headerErr, time, convert) ==
    IF headerErr
    THEN [err |-> "header", fault |-> FALSE, built |-> <<>>]
    ELSE IF cfg.SecondsPerSlot = 0
    THEN [err |-> "nil", fault |-> TRUE, built |-> <<>>]
    ELSE [err |-> "nil", fault |-> FALSE,
          built |-> <<headTargetSlot(cfg, time, convert)>>]

\* GetHeadState is called: it asks the execution client for the latest header.
GetHeadState ==
    /\ mgr = "ok"
    /\ pc = "idle"
    /\ call' = "GetHeadState"
    /\ headerRequests' = headerRequests + 1
    /\ pc' = "header"
    /\ UNCHANGED <<mgr, BeaconConfig, log, input, targetSlot, probes, skips,
                   configFetches, builderCalls, ret, cacheVars, sideVars>>

\* HeaderByNumber answers: GetHeadState returns the error, or computes the
\* slot of the header's time and calls getState for it.
HeaderByNumber(headerErr, time, convert) ==
    /\ pc = "header"
    /\ input' = IF headerErr
                THEN [NoInput EXCEPT !.headerErr = TRUE]
                ELSE [NoInput EXCEPT !.Time = time, !.convert = convert]
    /\ LET r == headState(BeaconConfig, headerErr, time, convert)
       IN  /\ ret' = [NoReturn EXCEPT !.err = r.err, !.fault = r.fault]
           /\ builderCalls' = r.built
           /\ pc' = IF r.fault THEN "panicked"
                    ELSE IF r.err # "nil" THEN "done" ELSE "getState"
           /\ callers' = IF r.built = <<>> THEN callers
                         ELSE [callers EXCEPT ![Sequential] = enteredGetState(r.built[1])]
    /\ UNCHANGED <<mgr, BeaconConfig, log, call, targetSlot, probes, skips,
                   configFetches, headerRequests, cacheVars, rd, updateLock,
                   legacy, demand, epochCall>>

(***************************************************************************)
(* GetStateForSlot.                                                         *)
(***************************************************************************)
\* GetStateForSlot with the config fetched again for the call.
GetStateForSlotRefetching(slotNumber) ==
    /\ mgr = "ok"
    /\ pc = "idle"
    /\ call' = "GetStateForSlot"
    /\ configFetches' = configFetches + 1
    /\ input' = [NoInput EXCEPT !.slotNumber = slotNumber]
    /\ builderCalls' = <<slotNumber>>
    /\ callers' = [callers EXCEPT ![Sequential] = enteredGetState(slotNumber)]
    /\ pc' = "getState"
    /\ UNCHANGED <<mgr, BeaconConfig, log, targetSlot, probes, skips,
                   headerRequests, ret, cacheVars, rd, updateLock, legacy, demand,
                   epochCall>>

\* GetStateForSlot is called: it calls getState for the slot.
GetStateForSlot(slotNumber) ==
    /\ mgr = "ok"
    /\ pc = "idle"
    /\ call' = "GetStateForSlot"
    /\ input' = [NoInput EXCEPT !.slotNumber = slotNumber]
    /\ builderCalls' = <<slotNumber>>
    /\ callers' = [callers EXCEPT ![Sequential] = enteredGetState(slotNumber)]
    /\ pc' = "getState"
    /\ UNCHANGED <<mgr, BeaconConfig, log, targetSlot, probes, skips,
                   configFetches, headerRequests, ret, cacheVars, rd, updateLock,
                   legacy, demand, epochCall>>

(***************************************************************************)
(* GetLatestFinalizedBeaconBlock.                                           *)
(***************************************************************************)
(***************************************************************************)
(* GetLatestFinalizedBeaconBlock.                                           *)
(***************************************************************************)
\* The consensus client's answer to GetBeaconBlock for a slot: the block of
\* the chain at that slot if there is one.
GetBeaconBlock(blocks, slot, rpcErr) ==
    IF rpcErr
    THEN [block |-> EmptyBlock, exists |-> FALSE, err |-> TRUE]
    ELSE IF U64IsSmall(slot) /\ U64ToNat(slot) \in blocks
    THEN [block |-> [Slot |-> slot, HasExecutionPayload |-> TRUE],
          exists |-> TRUE, err |-> FALSE]
    ELSE [block |-> EmptyBlock, exists |-> FALSE, err |-> FALSE]

\* The target without the "- 1": the first slot of the next epoch.
finalizedTargetSlotNextEpoch(cfg, finalizedEpoch) ==
    U64Add(U64Mul(U64FromNat(finalizedEpoch), U64FromNat(cfg.SlotsPerEpoch)),
           U64FromNat(cfg.SlotsPerEpoch))

\* targetSlot := head.FinalizedEpoch*SlotsPerEpoch + (SlotsPerEpoch - 1)
finalizedTargetSlot(cfg, finalizedEpoch) ==
    U64Add(U64Mul(U64FromNat(finalizedEpoch), U64FromNat(cfg.SlotsPerEpoch)),
           U64Sub(U64FromNat(cfg.SlotsPerEpoch), One))

\* logLine: the line is printed only if the manager has a logger.
logLine(lines, logger, slot) == IF logger THEN Append(lines, slot) ELSE lines

\* The call up to its loop: the chain head is fetched and the target computed.
GetLatestFinalizedBeaconBlock(headErr, finalizedEpoch, blocks) ==
    /\ mgr = "ok"
    /\ pc = "idle"
    /\ call' = "GetLatestFinalizedBeaconBlock"
    /\ IF headErr
       THEN /\ input' = [NoInput EXCEPT !.headErr = TRUE]
            /\ ret' = [NoReturn EXCEPT !.err = "head"]
            /\ targetSlot' = Zero
            /\ pc' = "done"
       ELSE /\ input' = [NoInput EXCEPT !.FinalizedEpoch = finalizedEpoch,
                                        !.blocks = blocks]
            /\ ret' = NoReturn
            /\ targetSlot' = finalizedTargetSlot(BeaconConfig, finalizedEpoch)
            /\ pc' = "locating"
    /\ UNCHANGED <<mgr, BeaconConfig, log, probes, skips, configFetches,
                   headerRequests, builderCalls, cacheVars, sideVars>>

\* The loop taking a failed probe for a missing slot.
probeStepErrorAsMissing(slot, answer, lines, logger) ==
    IF ~answer.exists
    THEN [pc |-> "locating", targetSlot |-> U64Sub(slot, One),
          skips |-> logLine(lines, logger, slot),
          block |-> EmptyBlock, err |-> "nil"]
    ELSE [pc |-> "done", targetSlot |-> slot, skips |-> lines,
          block |-> answer.block, err |-> "nil"]

\* The loop logging the skip after the decrement.
probeStepLogAfterDecrement(slot, answer, lines, logger) ==
    IF answer.err
    THEN [pc |-> "done", targetSlot |-> slot, skips |-> lines,
          block |-> EmptyBlock, err |-> "probe"]
    ELSE IF ~answer.exists
    THEN [pc |-> "locating", targetSlot |-> U64Sub(slot, One),
          skips |-> logLine(lines, logger, U64Sub(slot, One)),
          block |-> EmptyBlock, err |-> "nil"]
    ELSE [pc |-> "done", targetSlot |-> slot, skips |-> lines,
          block |-> answer.block, err |-> "nil"]

\* What one iteration of the loop does with the client's answer.
probeStep(slot, answer, lines, logger) ==
    IF answer.err
    THEN [pc |-> "done", targetSlot |-> slot, skips |-> lines,
          block |-> EmptyBlock, err |-> "probe"]
    ELSE IF ~answer.exists
    THEN [pc |-> "locating", targetSlot |-> U64Sub(slot, One),
          skips |-> logLine(lines, logger, slot),
          block |-> EmptyBlock, err |-> "nil"]
    ELSE [pc |-> "done", targetSlot |-> slot, skips |-> lines,
          block |-> answer.block, err |-> "nil"]

\* One iteration of the loop: a probe of targetSlot.
ProbeLoop(rpcErr) ==
    /\ pc = "locating"
    /\ Len(probes) < MaxProbes
    /\ LET answer == GetBeaconBlock(input.blocks, targetSlot, rpcErr)
           step == probeStep(targetSlot, answer, skips, log)
       IN  /\ probes' = Append(probes, [slot |-> targetSlot,
                                        answer |-> IF answer.err THEN "error"
                                                   ELSE IF answer.exists THEN "exists"
                                                   ELSE "empty"])
           /\ pc' = step.pc
           /\ targetSlot' = step.targetSlot
           /\ skips' = step.skips
           /\ ret' = [NoReturn EXCEPT !.block = step.block, !.err = step.err]
    /\ UNCHANGED <<mgr, BeaconConfig, log, call, input, configFetches,
                   headerRequests, builderCalls, cacheVars, sideVars>>

\* The call has returned: its caller has the result, and the manager (if one
\* was made) can be called again.
Return ==
    /\ pc = "done"
    /\ pc' = "idle"
    /\ call' = "none"
    /\ input' = NoInput
    /\ ret' = NoReturn
    /\ targetSlot' = Zero
    /\ probes' = <<>>
    /\ skips' = <<>>
    /\ headerRequests' = 0
    /\ builderCalls' = <<>>
    /\ UNCHANGED <<mgr, BeaconConfig, log, configFetches, cacheVars, sideVars>>

(***************************************************************************)
(* The state locker: it holds the latest snapshot; before the first update  *)
(* it holds nil.                                                            *)
(***************************************************************************)
\* An update that keeps the first snapshot.
UpdateStateKeepFirst(newState) ==
    /\ cache' = IF cache = NilState THEN newState ELSE cache
    /\ written' = Append(written, newState)

UpdateState(newState) ==
    /\ cache' = newState
    /\ written' = Append(written, newState)

GetState ==
    /\ got' = cache
    /\ gotAfter' = Len(written)
    /\ UNCHANGED <<cache, written>>

\* The refresh path: the caller of the manager publishes the snapshot that the
\* call returned.
Refresh ==
    /\ pc = "done"
    /\ call \in {"GetHeadState", "GetStateForSlot"}
    /\ ret.err = "nil"
    /\ Len(written) < MaxSets
    /\ UpdateState(ret.state)
    /\ UNCHANGED <<managerVars, got, gotAfter, path, sideVars>>

\* The two paths exchanged.
collectPathExchanged(latestState) ==
    IF latestState = NilState THEN "atlas" ELSE "legacy"

\* The branch of OdaoCollector.Collect: the legacy path when GetState returned
\* nil, the atlas path otherwise.
collectPath(latestState) ==
    IF latestState = NilState THEN "legacy" ELSE "atlas"

\* OdaoCollector.Collect: the cached state is read, and the path is chosen on it.
Collect ==
    /\ GetState
    /\ path' = collectPath(got')
    /\ UNCHANGED managerVars

(***************************************************************************)
(* The manager, called sequentially.                                        *)
(***************************************************************************)
SlotNumbers == {U64FromNat(n) : n \in 0..MaxSlot}

\* The outcomes of one build: the set of its reads that fail.
BuildOutcomes == SUBSET Reads

Conversions(cfg, time) ==
    IF time < cfg.GenesisTime THEN {"wrap", "saturate"} ELSE {"none"}

\* The answers of the execution client to the header request.
AnswerHeaderByNumber ==
    \/ HeaderByNumber(TRUE, 0, "none")
    \/ \E time \in HeaderTimes(BeaconConfig.GenesisTime) :
          \E convert \in Conversions(BeaconConfig, time) :
              /\ time >= 0
              /\ HeaderByNumber(FALSE, time, convert)

CallGetStateForSlot ==
    \E slotNumber \in SlotNumbers : GetStateForSlot(slotNumber)

\* The steps of the getState call of the sequential caller.
SequentialGetState ==
    \/ \E failedReads \in BuildOutcomes : GetStateBuilt(Sequential, failedReads)
    \/ GetStateLock(Sequential)
    \/ GetStateUnlock(Sequential)
    \/ GetStateReturned

CallGetLatestFinalizedBeaconBlock ==
    \/ GetLatestFinalizedBeaconBlock(TRUE, 0, {})
    \/ \E finalizedEpoch \in 0..MaxEpoch, blocks \in Chains :
          GetLatestFinalizedBeaconBlock(FALSE, finalizedEpoch, blocks)

Next ==
    \/ \E cfg \in Eth2Configs, err \in BOOLEAN, logger \in BOOLEAN :
          NewNetworkStateManager(cfg, err, logger)
    \/ GetHeadState
    \/ AnswerHeaderByNumber
    \/ CallGetStateForSlot
    \/ SequentialGetState
    \/ CallGetLatestFinalizedBeaconBlock
    \/ \E rpcErr \in BOOLEAN : ProbeLoop(rpcErr)
    \/ Return

Spec == Init /\ [][Next]_vars

(***************************************************************************)
(* The state cache beside a manager: the manager has been constructed with  *)
(* the config of a 12-second chain, its callers refresh the cache with the  *)
(* snapshots it returns, and the collector reads the cache.                 *)
(***************************************************************************)
CacheConfig == [GenesisTime |-> 1000, SecondsPerSlot |-> 12, SlotsPerEpoch |-> MaxSlotsPerEpoch]

InitCache ==
    /\ mgr = "ok"
    /\ BeaconConfig = CacheConfig
    /\ log = TRUE
    /\ pc = "idle"
    /\ call = "none"
    /\ input = NoInput
    /\ targetSlot = Zero
    /\ probes = <<>>
    /\ skips = <<>>
    /\ configFetches = 1
    /\ headerRequests = 0
    /\ builderCalls = <<>>
    /\ ret = NoReturn
    /\ cache = NilState
    /\ written = <<>>
    /\ got = NilState
    /\ gotAfter = 0
    /\ path = "none"
    /\ InitSide

NextCache ==
    \/ GetHeadState
    \/ AnswerHeaderByNumber
    \/ CallGetStateForSlot
    \/ SequentialGetState
    \/ Return
    \/ Refresh
    \/ Collect /\ UNCHANGED sideVars

SpecCache == InitCache /\ [][NextCache]_vars

(***************************************************************************)
(* The ODAO collector.                                                      *)
(***************************************************************************)
\* float64(x) of a uint64 x: exact below 2^53.
Float64(x) == U64ToNat(x)

\* prometheus.MustNewConstMetric(desc, prometheus.GaugeValue, value)
Gauge(desc, value) == [desc |-> desc, value |-> value]

\* The four sends that end both paths of the collector, in their order.
OdaoGauges(floats) ==
    << Gauge("currentEth1Block", floats.blockNumberFloat),
       Gauge("pricesBlock", floats.pricesBlockFloat),
       Gauge("effectiveRplStakeBlock", floats.effectiveRplStakeBlockFloat),
       Gauge("latestReportableBlock", floats.latestReportableBlockFloat) >>

\* One send of a path of the collector, `channel <- gauge`: the receiver takes
\* the next of the four gauges after those it has taken already.
sendNext(channel, floats) == Append(channel, OdaoGauges(floats)[Len(channel) + 1])

\* The answers of a chain read of the legacy collection: it fails or gives a
\* block number.
TaskAnswers(values) == {Failed} \cup {[ok |-> TRUE, value |-> v] : v \in values}

\* collectImpl_Legacy up to its wg.Wait: the result variables hold -1 and the
\* three tasks have been handed to the errgroup.
StartedLegacy ==
    [IdleLegacy EXCEPT !.pc = "running",
                       !.task = [i \in Tasks |-> "pending"],
                       !.floats = SentinelFloats]

\* Task 2 assigns the block number as well.
TaskWritesShared(i) ==
    CASE i = 1 -> {"blockNumberFloat"}
      [] i = 2 -> {"blockNumberFloat", "pricesBlockFloat", "effectiveRplStakeBlockFloat"}
      [] i = 3 -> {"latestReportableBlockFloat"}

\* The result variables that task i assigns when its read succeeds.
TaskWrites(i) ==
    CASE i = 1 -> {"blockNumberFloat"}
      [] i = 2 -> {"pricesBlockFloat", "effectiveRplStakeBlockFloat"}
      [] i = 3 -> {"latestReportableBlockFloat"}

\* Task i runs: it queries the chain; on an error it returns the error, which
\* the errgroup keeps if it is the first; otherwise it assigns its variables.
runTask(lg, i, answer) ==
    IF ~answer.ok
    THEN [lg EXCEPT !.task[i] = "err",
                    !.answers[i] = answer,
                    !.queries = @ + 1,
                    !.err = IF @ = 0 THEN i ELSE @]
    ELSE [lg EXCEPT !.task[i] = "ok",
                    !.answers[i] = answer,
                    !.queries = @ + 1,
                    !.floats = [v \in DOMAIN lg.floats |->
                                   IF v \in TaskWrites(i) THEN answer.value
                                                          ELSE lg.floats[v]],
                    !.writers = [v \in DOMAIN lg.writers |->
                                   IF v \in TaskWrites(i) THEN lg.writers[v] \cup {i}
                                                          ELSE lg.writers[v]]]

\* The sends follow whatever wg.Wait returned.
waitIgnoringError(lg) == [lg EXCEPT !.pc = "sending"]

\* wg.Wait has returned, all tasks being done: its error is logged and the
\* function returns, or the function goes on to its four sends.
wait(lg) ==
    IF lg.err # 0
    THEN [lg EXCEPT !.pc = "done", !.logged = <<lg.err>>]
    ELSE [lg EXCEPT !.pc = "sending"]

\* One send of collectImpl_Legacy; the function returns after the fourth.
send(lg) ==
    LET channel == sendNext(lg.channel, lg.floats)
    IN  [lg EXCEPT !.channel = channel,
                   !.pc = IF Len(channel) = 4 THEN "done" ELSE "sending"]

\* The orders in which the three tasks can finish.
TaskOrders == {o \in [Tasks -> Tasks] : \A i, j \in Tasks : o[i] = o[j] => i = j}

\* What collectImpl_Legacy has done when it returns, the tasks having run to
\* completion in the order o.
collectImpl_Legacy(answers, o) ==
    LET waited == wait(runTask(runTask(runTask(StartedLegacy, o[1], answers[o[1]]),
                                       o[2], answers[o[2]]),
                               o[3], answers[o[3]]))
    IN  IF waited.pc = "sending" THEN send(send(send(send(waited)))) ELSE waited

(***************************************************************************)
(* Collect calls beside the refresh task: each call reads the state locker, *)
(* then renders its gauges, while the locker is updated.                    *)
(***************************************************************************)
\* The snapshot of the i-th head the refresh task publishes; its fields differ
\* from each other and from those of every other snapshot.
PublishedState(i) ==
    [nil |-> FALSE,
     BeaconSlotNumber |-> U64FromNat(i),
     ElBlockNumber |-> U64FromNat(3 * i),
     NetworkDetails |-> [PricesBlock |-> U64FromNat(3 * i - 2),
                         LatestReportablePricesBlock |-> U64FromNat(3 * i - 1)]]

\* The refresh task publishes the snapshot of the next head.
Publish ==
    /\ Len(written) < MaxSets
    /\ UpdateState(PublishedState(Len(written) + 1))
    /\ UNCHANGED <<managerVars, got, gotAfter, path, sideVars>>

\* Collect of call r: the state the locker holds is read and the path is
\* chosen on it; on the legacy path the three tasks are handed to the errgroup.
ReaderCollect(r) ==
    /\ rd[r].pc = "idle"
    /\ LET latestState == cache
           chosen == collectPath(latestState)
       IN  rd' = [rd EXCEPT ![r] =
                     IF chosen = "legacy"
                     THEN [IdleReader EXCEPT !.pc = chosen, !.path = chosen,
                                             !.latestState = latestState,
                                             !.lg = StartedLegacy]
                     ELSE [IdleReader EXCEPT !.pc = chosen, !.path = chosen,
                                             !.latestState = latestState]]
    /\ UNCHANGED <<managerVars, cacheVars, callers, updateLock, legacy, demand, epochCall>>

\* The fields are read from what the locker holds at the time of the read.
AtlasStateReread(latestState, current) == current

\* The state whose fields collectImpl_Atlas reads: the one Collect passed.
AtlasState(latestState, current) == latestState

\* collectImpl_Atlas, its first read.
AtlasReadBlock(r) ==
    /\ rd[r].pc = "atlas"
    /\ LET state == AtlasState(rd[r].latestState, cache)
       IN  rd' = [rd EXCEPT ![r].pc = "atlasDetails",
                            ![r].floats.blockNumberFloat = Float64(state.ElBlockNumber)]
    /\ UNCHANGED <<managerVars, cacheVars, callers, updateLock, legacy, demand, epochCall>>

\* collectImpl_Atlas, its reads of the network details.
AtlasReadDetails(r) ==
    /\ rd[r].pc = "atlasDetails"
    /\ LET state == AtlasState(rd[r].latestState, cache)
           pricesBlockFloat == Float64(state.NetworkDetails.PricesBlock)
           floats == [rd[r].floats EXCEPT
                         !.pricesBlockFloat = pricesBlockFloat,
                         !.effectiveRplStakeBlockFloat = pricesBlockFloat,
                         !.latestReportableBlockFloat =
                             Float64(state.NetworkDetails.LatestReportablePricesBlock)]
       IN  rd' = [rd EXCEPT ![r].pc = "atlasSend",
                            ![r].floats = floats]
    /\ UNCHANGED <<managerVars, cacheVars, callers, updateLock, legacy, demand, epochCall>>

\* collectImpl_Atlas, one of its four sends; it returns after the fourth.
AtlasSend(r) ==
    /\ rd[r].pc = "atlasSend"
    /\ LET channel == sendNext(rd[r].channel, rd[r].floats)
       IN  rd' = [rd EXCEPT ![r].pc = IF Len(channel) = 4 THEN "done" ELSE "atlasSend",
                            ![r].channel = channel]
    /\ UNCHANGED <<managerVars, cacheVars, callers, updateLock, legacy, demand, epochCall>>

\* collectImpl_Legacy of call r: task i runs, the chain giving it the answer.
ReaderLegacyTask(r, i, answer) ==
    /\ rd[r].pc = "legacy"
    /\ rd[r].lg.task[i] = "pending"
    /\ LET lg == runTask(rd[r].lg, i, answer)
       IN  rd' = [rd EXCEPT ![r].lg = lg,
                            ![r].queries = lg.queries]
    /\ UNCHANGED <<managerVars, cacheVars, callers, updateLock, legacy, demand, epochCall>>

\* collectImpl_Legacy of call r: wg.Wait returns once the three tasks have
\* returned; with an error the function logs it and returns, its locals gone,
\* otherwise it goes on to its sends.
ReaderLegacyWait(r) ==
    /\ rd[r].pc = "legacy"
    /\ rd[r].lg.pc = "running"
    /\ \A i \in Tasks : rd[r].lg.task[i] # "pending"
    /\ LET lg == wait(rd[r].lg)
       IN  rd' = [rd EXCEPT ![r].pc = IF lg.pc = "done" THEN "done" ELSE "legacy",
                            ![r].lg = IF lg.pc = "done" THEN IdleLegacy ELSE lg,
                            ![r].logged = lg.logged]
    /\ UNCHANGED <<managerVars, cacheVars, callers, updateLock, legacy, demand, epochCall>>

\* collectImpl_Legacy of call r, one of its four sends; it returns after the
\* fourth, its locals gone.
ReaderLegacySend(r) ==
    /\ rd[r].pc = "legacy"
    /\ rd[r].lg.pc = "sending"
    /\ LET lg == send(rd[r].lg)
       IN  rd' = [rd EXCEPT ![r].pc = IF lg.pc = "done" THEN "done" ELSE "legacy",
                            ![r].lg = IF lg.pc = "done" THEN IdleLegacy ELSE lg,
                            ![r].channel = lg.channel]
    /\ UNCHANGED <<managerVars, cacheVars, callers, updateLock, legacy, demand, epochCall>>

\* Collect of call r has returned.
ReaderReturn(r) ==
    /\ rd[r].pc = "done"
    /\ rd' = [rd EXCEPT ![r] = IdleReader]
    /\ UNCHANGED <<managerVars, cacheVars, callers, updateLock, legacy, demand, epochCall>>

NextReaders ==
    \/ Publish
    \/ \E r \in Readers : ReaderCollect(r)
    \/ \E r \in Readers : AtlasReadBlock(r)
    \/ \E r \in Readers : AtlasReadDetails(r)
    \/ \E r \in Readers : AtlasSend(r)
    \/ \E r \in Readers, i \in Tasks, answer \in TaskAnswers({MaxSlot}) :
          ReaderLegacyTask(r, i, answer)
    \/ \E r \in Readers : ReaderLegacyWait(r)
    \/ \E r \in Readers : ReaderLegacySend(r)
    \/ \E r \in Readers : ReaderReturn(r)

SpecReaders == InitCache /\ [][NextReaders]_vars

(***************************************************************************)
(* Concurrent getState calls on one manager.                                *)
(***************************************************************************)
\* A caller of the manager calls getState for a slot.
GetStateBegin(p, slotNumber) ==
    /\ mgr = "ok"
    /\ callers[p].pc = "idle"
    /\ callers' = [callers EXCEPT ![p] = enteredGetState(slotNumber)]
    /\ UNCHANGED <<managerVars, cacheVars, rd, updateLock, legacy, demand, epochCall>>

\* The caller of call p has its result and can call again.
GetStateReturn(p) ==
    /\ callers[p].pc = "returned"
    /\ callers' = [callers EXCEPT ![p] = IdleCaller]
    /\ UNCHANGED <<managerVars, cacheVars, rd, updateLock, legacy, demand, epochCall>>

NextGetState ==
    \/ \E p \in Callers, slotNumber \in SlotNumbers : GetStateBegin(p, slotNumber)
    \/ \E p \in Callers, failedReads \in BuildOutcomes : GetStateBuilt(p, failedReads)
    \/ \E p \in Callers : GetStateLock(p)
    \/ \E p \in Callers : GetStateUnlock(p)
    \/ \E p \in Callers : GetStateReturn(p)

\* A goroutine that is not blocked runs on: the return that frees the mutex is
\* weakly fair. sync.Mutex hands the mutex to a goroutine that has waited for
\* it (starvation mode), however often others take it: Lock is strongly fair.
\* Nothing makes a build finish or a caller call again.
SpecGetState ==
    /\ InitCache
    /\ [][NextGetState]_vars
    /\ \A p \in Callers : SF_vars(GetStateLock(p)) /\ WF_vars(GetStateUnlock(p))

(***************************************************************************)
(* One legacy collection, its three tasks running in any order.             *)
(***************************************************************************)
\* The block numbers the chain can answer with.
BlockNumbers == 0..MaxSlot

\* collectImpl_Legacy is entered: the result variables are declared and the
\* three tasks are handed to the errgroup.
LegacyStart ==
    /\ legacy.pc = "idle"
    /\ legacy' = StartedLegacy
    /\ UNCHANGED <<managerVars, cacheVars, rd, callers, updateLock, demand, epochCall>>

\* Task i runs, the chain giving it the answer.
LegacyTask(i, answer) ==
    /\ legacy.pc = "running"
    /\ legacy.task[i] = "pending"
    /\ legacy' = [runTask(legacy, i, answer) EXCEPT !.order = Append(legacy.order, i)]
    /\ UNCHANGED <<managerVars, cacheVars, rd, callers, updateLock, demand, epochCall>>

\* wg.Wait returns once the three tasks have returned: the error is logged
\* and the function returns, or it goes on to its sends.
LegacyWait ==
    /\ legacy.pc = "running"
    /\ \A i \in Tasks : legacy.task[i] # "pending"
    /\ legacy' = wait(legacy)
    /\ UNCHANGED <<managerVars, cacheVars, rd, callers, updateLock, demand, epochCall>>

\* One of the four sends; the function returns after the fourth.
LegacySend ==
    /\ legacy.pc = "sending"
    /\ legacy' = send(legacy)
    /\ UNCHANGED <<managerVars, cacheVars, rd, callers, updateLock, demand, epochCall>>

\* collectImpl_Legacy has returned.
LegacyReturn ==
    /\ legacy.pc = "done"
    /\ legacy' = IdleLegacy
    /\ UNCHANGED <<managerVars, cacheVars, rd, callers, updateLock, demand, epochCall>>

NextLegacy ==
    \/ LegacyStart
    \/ \E i \in Tasks, answer \in TaskAnswers(BlockNumbers) : LegacyTask(i, answer)
    \/ LegacyWait
    \/ LegacySend
    \/ LegacyReturn

SpecLegacy == InitCache /\ [][NextLegacy]_vars

(***************************************************************************)
(* epochAt, called with any config of the client and any time.              *)
(***************************************************************************)
EpochConfigs == {EpochConfig(c, e) : c \in Eth2Configs, e \in 0..MaxEpoch}

\* config.GenesisEpoch + (time - config.GenesisTime) / config.SecondsPerEpoch
\* in uint64: the difference wraps when time is before the genesis time.
epochAt(config, time) ==
    U64Add(U64FromNat(config.GenesisEpoch),
           U64Div(U64Sub(U64FromNat(time), U64FromNat(config.GenesisTime)),
                  config.SecondsPerEpoch))

\* One call of epochAt: it returns the epoch, or panics on the division by 0.
EpochAt(config, time) ==
    /\ ~epochCall.called
    /\ epochCall' = IF config.SecondsPerEpoch = 0
                    THEN [NoEpochCall EXCEPT !.called = TRUE, !.config = config,
                                             !.time = time, !.panicked = TRUE]
                    ELSE [NoEpochCall EXCEPT !.called = TRUE, !.config = config,
                                             !.time = time, !.returned = TRUE,
                                             !.epoch = epochAt(config, time)]
    /\ UNCHANGED <<managerVars, cacheVars, rd, callers, updateLock, legacy, demand>>

\* The caller of epochAt has its result.
EpochReturn ==
    /\ epochCall.called
    /\ epochCall' = NoEpochCall
    /\ UNCHANGED <<managerVars, cacheVars, rd, callers, updateLock, legacy, demand>>

NextEpoch ==
    \/ \E config \in EpochConfigs :
          \E time \in HeaderTimes(config.GenesisTime) :
              /\ time >= 0
              /\ EpochAt(config, time)
    \/ EpochReturn

SpecEpoch == Init /\ [][NextEpoch]_vars

(***************************************************************************)
(* The demand collector: three reads, one after the other, and four gauges. *)
(***************************************************************************)
\* 10^18 wei.
WeiPerEth ==
    U64Mul(U64Mul(U64FromNat(1000000), U64FromNat(1000000)), U64FromNat(1000000))

\* The amounts the contracts answer with: whole numbers of ether, in wei.
Wei(k) == U64Mul(U64FromNat(k), WeiPerEth)

WeiAmounts == {Wei(k) : k \in 0..MaxEth}

\* eth.WeiToEth: the amount divided by 10^18, as a float64; exact for the
\* whole numbers of ether of the model.
WeiToEth(wei) == U64ToNat(U64Div(U64Div(U64Div(wei, 1000000), 1000000), 1000000))

\* The answers of GetBalance and GetExcessBalance, and those of GetQueueCapacity.
AmountAnswers == {NoAmount} \cup {[ok |-> TRUE, value |-> w] : w \in WeiAmounts}

CapacityAnswers ==
    {NoCapacity} \cup {[ok |-> TRUE, Total |-> t, Effective |-> e] :
                          t \in WeiAmounts, e \in WeiAmounts}

\* The float64 of an amount read: -1 unless the read succeeded.
amountFloat(answer) == IF ~answer.ok THEN Sentinel ELSE WeiToEth(answer.value)

\* The collector returns at a read that fails.
afterReadStopAtError(read, ok) ==
    IF ~ok THEN "done"
    ELSE IF read = "GetBalance" THEN "sendBalance"
    ELSE IF read = "GetExcessBalance" THEN "sendExcess"
    ELSE "sendTotal"

\* Where DemandCollector.Collect goes on after a read has answered: to the
\* send of the gauge of that read, whether the read failed or not.
afterRead(read, ok) ==
    IF read = "GetBalance" THEN "sendBalance"
    ELSE IF read = "GetExcessBalance" THEN "sendExcess"
    ELSE "sendTotal"

\* DemandCollector.Collect is called: it asks for the deposit pool balance and
\* waits for the answer.
DemandCollect ==
    /\ demand.pc = "idle"
    /\ demand' = [demand EXCEPT !.pc = "GetBalance"]
    /\ UNCHANGED <<managerVars, cacheVars, rd, callers, updateLock, legacy, epochCall>>

\* deposit.GetBalance answers.
DemandGetBalance(answer) ==
    /\ demand.pc = "GetBalance"
    /\ demand' = [demand EXCEPT
                      !.pc = afterRead(demand.pc, answer.ok),
                      !.answers.balance = answer,
                      !.floats.balanceFloat = amountFloat(answer),
                      !.logged = IF ~answer.ok
                                 THEN Append(@, "Error getting deposit pool balance")
                                 ELSE @]
    /\ UNCHANGED <<managerVars, cacheVars, rd, callers, updateLock, legacy, epochCall>>

\* The receiver takes the gauge of the balance; Collect asks for the excess.
DemandSendBalance ==
    /\ demand.pc = "sendBalance"
    /\ demand' = [demand EXCEPT
                      !.pc = "GetExcessBalance",
                      !.channel = Append(@, Gauge("depositPoolBalance",
                                                  demand.floats.balanceFloat))]
    /\ UNCHANGED <<managerVars, cacheVars, rd, callers, updateLock, legacy, epochCall>>

\* deposit.GetExcessBalance answers.
DemandGetExcessBalance(answer) ==
    /\ demand.pc = "GetExcessBalance"
    /\ demand' = [demand EXCEPT
                      !.pc = afterRead(demand.pc, answer.ok),
                      !.answers.excess = answer,
                      !.floats.excessFloat = amountFloat(answer),
                      !.logged = IF ~answer.ok
                                 THEN Append(@, "Error getting deposit pool excess")
                                 ELSE @]
    /\ UNCHANGED <<managerVars, cacheVars, rd, callers, updateLock, legacy, epochCall>>

\* The receiver takes the gauge of the excess; Collect asks for the capacity
\* of the minipool queue.
DemandSendExcess ==
    /\ demand.pc = "sendExcess"
    /\ demand' = [demand EXCEPT
                      !.pc = "GetQueueCapacity",
                      !.channel = Append(@, Gauge("depositPoolExcess",
                                                  demand.floats.excessFloat))]
    /\ UNCHANGED <<managerVars, cacheVars, rd, callers, updateLock, legacy, epochCall>>

\* minipool.GetQueueCapacity answers: both capacities come from this one read.
DemandGetQueueCapacity(answer) ==
    /\ demand.pc = "GetQueueCapacity"
    /\ demand' = [demand EXCEPT
                      !.pc = afterRead(demand.pc, answer.ok),
                      !.answers.capacity = answer,
                      !.floats.totalFloat =
                          IF ~answer.ok THEN Sentinel ELSE WeiToEth(answer.Total),
                      !.floats.effectiveFloat =
                          IF ~answer.ok THEN Sentinel ELSE WeiToEth(answer.Effective),
                      !.logged = IF ~answer.ok
                                 THEN Append(@, "Error getting minipool queue capacity")
                                 ELSE @]
    /\ UNCHANGED <<managerVars, cacheVars, rd, callers, updateLock, legacy, epochCall>>

\* The receiver takes the gauge of the total capacity.
DemandSendTotal ==
    /\ demand.pc = "sendTotal"
    /\ demand' = [demand EXCEPT
                      !.pc = "sendEffective",
                      !.channel = Append(@, Gauge("totalMinipoolCapacity",
                                                  demand.floats.totalFloat))]
    /\ UNCHANGED <<managerVars, cacheVars, rd, callers, updateLock, legacy, epochCall>>

\* The receiver takes the gauge of the effective capacity, the last send.
DemandSendEffective ==
    /\ demand.pc = "sendEffective"
    /\ demand' = [demand EXCEPT
                      !.pc = "done",
                      !.channel = Append(@, Gauge("effectiveMinipoolCapacity",
                                                  demand.floats.effectiveFloat))]
    /\ UNCHANGED <<managerVars, cacheVars, rd, callers, updateLock, legacy, epochCall>>

\* Collect has returned.
DemandReturn ==
    /\ demand.pc = "done"
    /\ demand' = NoDemand
    /\ UNCHANGED <<managerVars, cacheVars, rd, callers, updateLock, legacy, epochCall>>

NextDemand ==
    \/ DemandCollect
    \/ \E answer \in AmountAnswers : DemandGetBalance(answer)
    \/ DemandSendBalance
    \/ \E answer \in AmountAnswers : DemandGetExcessBalance(answer)
    \/ DemandSendExcess
    \/ \E answer \in CapacityAnswers : DemandGetQueueCapacity(answer)
    \/ DemandSendTotal
    \/ DemandSendEffective
    \/ DemandReturn

SpecDemand == Init /\ [][NextDemand]_vars

(***************************************************************************)
(* Properties of the finalized-block locator.                               *)
(***************************************************************************)
Locating == call = "GetLatestFinalizedBeaconBlock" /\ ~input.headErr

Returned == pc = "done"

\* The config the data model asks for: both divisors are positive.
ValidConfig == BeaconConfig.SecondsPerSlot > 0 /\ BeaconConfig.SlotsPerEpoch > 0

\* The last slot of the finalized epoch, as a number.
LastSlotOf(cfg, finalizedEpoch) ==
    finalizedEpoch * cfg.SlotsPerEpoch + (cfg.SlotsPerEpoch - 1)

\* The existing slots at or below slot t.
ExistingUpTo(blocks, t) == {s \in blocks : s <= t}

\* The highest element of a non-empty set of slots.
Highest(slots) == CHOOSE s \in slots : \A u \in slots : u <= s

\* The slots the current call probed and found empty, in probe order.
RECURSIVE EmptySlots(_)
EmptySlots(ps) ==
    IF ps = <<>> THEN <<>>
    ELSE IF ps[1].answer = "empty" THEN <<ps[1].slot>> \o EmptySlots(Tail(ps))
    ELSE EmptySlots(Tail(ps))

\* C1: with slotsPerEpoch > 0, a block existing at or below the last slot T of
\* the finalized epoch and no RPC failure, the locator probes no slot above T,
\* never goes below the highest existing slot at or below T, and returns the
\* block at that slot.
C1_ReturnsNewestExistingBlock ==
    (/\ Locating
     /\ BeaconConfig.SlotsPerEpoch > 0
     /\ ExistingUpTo(input.blocks, LastSlotOf(BeaconConfig, input.FinalizedEpoch)) # {})
    => LET t == LastSlotOf(BeaconConfig, input.FinalizedEpoch)
           h == Highest(ExistingUpTo(input.blocks, t))
       IN  /\ \A i \in 1..Len(probes) :
                 /\ U64IsSmall(probes[i].slot)
                 /\ U64ToNat(probes[i].slot) <= t
                 /\ U64ToNat(probes[i].slot) >= h
           /\ pc = "locating" =>
                 /\ U64IsSmall(targetSlot)
                 /\ U64ToNat(targetSlot) >= h
                 /\ U64ToNat(targetSlot) = t - Len(probes)
           /\ (Returned /\ ret.err = "nil") => ret.block.Slot = U64FromNat(h)

\* Two empty slots are skipped and the block below them is returned, while an
\* older block exists as well.
C1_Witness ==
    /\ Locating
    /\ Returned
    /\ ret.err = "nil"
    /\ BeaconConfig.SlotsPerEpoch > 0
    /\ Len(probes) = 3
    /\ \E s \in input.blocks : s < U64ToNat(ret.block.Slot)

\* C2: when every slot from the target down to slot 0 is empty, the search
\* stops at slot 0 with an error, and no slot above the first target is probed.
C2_StopsAtSlotZero ==
    (Locating /\ ValidConfig) =>
        \A i \in 1..Len(probes) :
            /\ U64Leq(probes[i].slot, probes[1].slot)
            /\ (probes[i].slot = Zero /\ probes[i].answer = "empty")
                  => (Returned /\ ret.err # "nil")

\* C3: a failed head fetch or a failed probe ends the call at once with that
\* error and an empty block: the failed probe is the last one, the slot is not
\* decremented and no skip is logged for it.
C3_RpcErrorAborts ==
    /\ (call = "GetLatestFinalizedBeaconBlock" /\ input.headErr)
          => /\ Returned
             /\ ret.err = "head"
             /\ ret.block = EmptyBlock
             /\ probes = <<>>
    /\ Locating =>
          /\ \A i \in 1..Len(probes) :
                probes[i].answer = "error"
                   => /\ i = Len(probes)
                      /\ Returned
                      /\ ret.err = "probe"
                      /\ ret.block = EmptyBlock
                      /\ targetSlot = probes[i].slot
                      /\ \A j \in 1..Len(skips) : skips[j] # probes[i].slot
          /\ ret.err = "probe"
                => (probes # <<>> /\ probes[Len(probes)].answer = "error")

\* A probe fails after an empty slot was skipped.
C3_Witness ==
    /\ Locating
    /\ Returned
    /\ ret.err = "probe"
    /\ Len(probes) = 2

\* C4 as stated: one skip diagnostic is emitted per empty slot probed, and on
\* success their number is the first target minus the returned slot.
C4_OneSkipLinePerEmptySlot ==
    (Locating /\ ValidConfig) =>
        /\ skips = EmptySlots(probes)
        /\ (Returned /\ ret.err = "nil")
              => ret.block.Slot = U64Sub(probes[1].slot, U64FromNat(Len(skips)))

\* C4 as amended: a manager with a logger emits one skip line per empty slot
\* probed, in probe order, each line one slot below the line before it, none
\* for the returned slot, and on success as many as the first target minus the
\* returned slot; a manager without a logger emits none.
C4_SkipLinesIfLogger ==
    Locating =>
        /\ skips = IF log THEN EmptySlots(probes) ELSE <<>>
        /\ \A j \in 1..(Len(skips) - 1) : skips[j + 1] = U64Sub(skips[j], One)
        /\ (Returned /\ ret.err = "nil") =>
              /\ \A j \in 1..Len(skips) : skips[j] # ret.block.Slot
              /\ ret.block.Slot =
                    U64Sub(probes[1].slot, U64FromNat(Len(EmptySlots(probes))))
              /\ log => Len(skips) = Len(probes) - 1

\* With a logger, two empty slots are skipped and a block is returned.
C4_Witness ==
    /\ Locating
    /\ Returned
    /\ ret.err = "nil"
    /\ log
    /\ Len(skips) = 2

(***************************************************************************)
(* Properties of GetHeadState.                                              *)
(***************************************************************************)
HeadReturned == call = "GetHeadState" /\ pc = "done" /\ ~input.headerErr

\* C5: with secondsPerSlot > 0 and a header time t >= genesisTime, the snapshot
\* is built for slot floor((t - genesisTime) / secondsPerSlot), which is 0 at
\* t = genesisTime, 50 for genesisTime 1000, secondsPerSlot 12 and t = 1600,
\* and not below the slot of any earlier time t' with genesisTime <= t' <= t.
C5_HeadSlotIsFloor ==
    (/\ HeadReturned
     /\ BeaconConfig.SecondsPerSlot > 0
     /\ input.Time >= BeaconConfig.GenesisTime)
    => LET g == BeaconConfig.GenesisTime
           d == BeaconConfig.SecondsPerSlot
       IN  /\ builderCalls = <<U64FromNat((input.Time - g) \div d)>>
           /\ input.Time = g => builderCalls = <<Zero>>
           /\ (g = 1000 /\ d = 12 /\ input.Time = 1600)
                 => builderCalls = <<U64FromNat(50)>>
           /\ \A earlier \in HeaderTimes(g) :
                 (g <= earlier /\ earlier <= input.Time)
                    => U64Leq(headTargetSlot(BeaconConfig, earlier, "none"),
                              builderCalls[1])

\* Scenario A: genesis 1000, 12-second slots, header time 1600.
C5_Witness ==
    /\ HeadReturned
    /\ BeaconConfig.GenesisTime = 1000
    /\ BeaconConfig.SecondsPerSlot = 12
    /\ input.Time = 1600
    /\ builderCalls = <<U64FromNat(50)>>

\* C6: a header time before the genesis time makes GetHeadState fail without
\* calling the snapshot builder.
C6_PreGenesisFails ==
    (/\ HeadReturned
     /\ ValidConfig
     /\ input.Time < BeaconConfig.GenesisTime)
    => (ret.err # "nil" /\ ret.state = NilState /\ builderCalls = <<>>)

\* C7: a manager only exists with secondsPerSlot > 0 and slotsPerEpoch > 0, and
\* no call ends in a division fault.
C7_ZeroConfigRejected ==
    /\ mgr = "ok" => (BeaconConfig.SecondsPerSlot > 0 /\ BeaconConfig.SlotsPerEpoch > 0)
    /\ ~ret.fault
    /\ pc # "panicked"

\* C9: when the header fetch fails, GetHeadState returns the wrapped error and
\* no state, after one header request and no call of the snapshot builder.
C9_HeaderErrorReturned ==
    (call = "GetHeadState" /\ input.headerErr)
    => /\ Returned
       /\ ret.err = "header"
       /\ ret.state = NilState
       /\ ~ret.fault
       /\ headerRequests = 1
       /\ builderCalls = <<>>

\* The header fetch of a GetHeadState call has failed.
C9_Witness ==
    /\ call = "GetHeadState"
    /\ input.headerErr
    /\ Returned
    /\ ret.err = "header"

(***************************************************************************)
(* Properties of getState and of the state cache.                           *)
(***************************************************************************)
SnapshotCall == call \in {"GetHeadState", "GetStateForSlot"} /\ pc = "done"

\* The held snapshot after the updates made so far.
LastWritten == IF written = <<>> THEN NilState ELSE written[Len(written)]

\* C8: when the builder reports an error the call returns that error and nil;
\* no call returns a state together with an error; a returned state is the one
\* built for the slot asked for; and the steps of the call leave the cache as
\* it was.
C8_BuildErrorReturnsNil ==
    /\ [](SnapshotCall =>
            /\ input.buildErr => (ret.err = "build" /\ ret.state = NilState)
            /\ ~(ret.state # NilState /\ ret.err # "nil")
            /\ ret.state # NilState =>
                  /\ ~input.buildErr
                  /\ builderCalls = <<ret.state.BeaconSlotNumber>>)
    /\ [][(pc' # pc \/ callers' # callers) => cache' = cache]_vars

\* A build fails while the cache holds a snapshot.
C8_Witness ==
    /\ SnapshotCall
    /\ input.buildErr
    /\ ret.err = "build"
    /\ cache # NilState

\* C10: before the first update a read returns nil; after updates a read
\* returns the snapshot of the latest update before it; the cache holds the
\* snapshot of the latest update, so a read leaves it as it was.
C10_LastWriterWins ==
    /\ cache = LastWritten
    /\ gotAfter <= Len(written)
    /\ got = IF gotAfter = 0 THEN NilState ELSE written[gotAfter]

\* Two different snapshots were written and the read after the second one
\* returned it.
C10_Witness ==
    /\ Len(written) = 2
    /\ written[1] # written[2]
    /\ gotAfter = 2
    /\ got = written[2]

(***************************************************************************)
(* Properties of the state cache read by concurrent Collect calls.          *)
(***************************************************************************)
\* The values of the four result variables that one snapshot gives.
FloatsOf(state) ==
    [blockNumberFloat |-> Float64(state.ElBlockNumber),
     pricesBlockFloat |-> Float64(state.NetworkDetails.PricesBlock),
     effectiveRplStakeBlockFloat |-> Float64(state.NetworkDetails.PricesBlock),
     latestReportableBlockFloat |->
         Float64(state.NetworkDetails.LatestReportablePricesBlock)]

\* The snapshots passed to UpdateState so far.
WrittenStates == {written[k] : k \in 1..Len(written)}

\* C11: in every interleaving of Collect calls with updates of the state
\* locker, what a call got from GetState is nil or exactly one of the written
\* snapshots, and every field the call reads afterwards is a field of that one
\* snapshot: no call observes a mixture of two snapshots. The gauges a call
\* has sent so far are the first gauges of that snapshot, and all four of them
\* when it has returned.
C11_NoTornSnapshot ==
    \A r \in Readers :
        /\ rd[r].pc # "idle" =>
              (rd[r].latestState = NilState \/ rd[r].latestState \in WrittenStates)
        /\ (rd[r].pc = "atlasDetails") =>
              /\ rd[r].latestState \in WrittenStates
              /\ rd[r].floats.blockNumberFloat =
                     FloatsOf(rd[r].latestState).blockNumberFloat
        /\ (rd[r].pc \in {"atlasSend", "done"} /\ rd[r].path = "atlas") =>
              /\ rd[r].latestState \in WrittenStates
              /\ rd[r].floats = FloatsOf(rd[r].latestState)
              /\ rd[r].channel = SubSeq(OdaoGauges(FloatsOf(rd[r].latestState)),
                                        1, Len(rd[r].channel))
              /\ rd[r].pc = "done" => Len(rd[r].channel) = 4

\* Two calls have rendered two different snapshots, the first of them after
\* the locker had been updated to the second.
C11_Witness ==
    /\ Len(written) = 2
    /\ written[1] # written[2]
    /\ cache = written[2]
    /\ \E r, q \in Readers :
          /\ rd[r].pc = "done" /\ rd[r].path = "atlas"
          /\ rd[r].latestState = written[1]
          /\ rd[q].pc = "atlasDetails"
          /\ rd[q].latestState = written[2]

(***************************************************************************)
(* Properties of concurrent getState calls.                                 *)
(***************************************************************************)
\* No call holds the mutex during its build, and a call in its build can
\* finish it whatever the other calls do; the holder is a call whose build has
\* succeeded and that has not returned yet.
MutexOnlyAroundReturn ==
    \A p \in Callers :
        /\ callers[p].pc = "building" =>
              /\ updateLock # p
              /\ \A failedReads \in BuildOutcomes : ENABLED GetStateBuilt(p, failedReads)
        /\ updateLock = p =>
              /\ callers[p].pc = "locked"
              /\ callers[p].err = "nil"
              /\ callers[p].state # NilState
        /\ callers[p].pc \in {"idle", "returned"} => updateLock # p

\* C12: in every interleaving of getState calls on one manager, no call holds
\* the update mutex while its snapshot is being built, so a build never waits
\* for another call; the mutex is taken only after a build has succeeded and
\* is free again when the call returns; every call whose build has finished
\* returns eventually.
C12_BuildsOutsideMutex ==
    /\ []MutexOnlyAroundReturn
    /\ \A p \in Callers :
          (callers[p].pc \in {"locking", "locked"}) ~> (callers[p].pc = "returned")

\* One call holds the mutex while another waits for it and its state is built.
C12_Witness ==
    \E p, q \in Callers :
        /\ callers[p].pc = "locked" /\ updateLock = p
        /\ callers[q].pc = "locking"
        /\ callers[q].state # NilState

(***************************************************************************)
(* Properties of the construction of the manager.                           *)
(***************************************************************************)
\* The config has been fetched once when a construction has been tried, and
\* never before; a failed fetch leaves no manager and no config.
FetchedAtConstruction ==
    /\ mgr = "none" => (configFetches = 0 /\ BeaconConfig = ZeroConfig)
    /\ mgr # "none" => configFetches = 1
    /\ mgr = "failed" => BeaconConfig = ZeroConfig
    /\ (call = "NewNetworkStateManager" /\ pc = "done") =>
          /\ ret.err = "config" <=> mgr = "failed"
          /\ ret.err = "nil" <=> mgr = "ok"
    /\ call \in {"GetHeadState", "GetStateForSlot", "GetLatestFinalizedBeaconBlock"}
          => mgr = "ok"

\* C13: the config is fetched exactly once, at construction; a failed fetch
\* gives no manager; once a manager is constructed, no step of GetHeadState,
\* GetStateForSlot or GetLatestFinalizedBeaconBlock, in any sequence, fetches
\* the config again or changes the held config.
C13_ConfigFetchedOnce ==
    /\ []FetchedAtConstruction
    /\ [][mgr # "none" =>
            /\ mgr' = mgr
            /\ BeaconConfig' = BeaconConfig
            /\ configFetches' = configFetches]_vars

\* A constructed manager holds a config of the client, fetched once, and its
\* locator has returned a block after more than one probe.
C13_Witness ==
    /\ mgr = "ok"
    /\ configFetches = 1
    /\ BeaconConfig # ZeroConfig
    /\ call = "GetLatestFinalizedBeaconBlock"
    /\ pc = "done"
    /\ ret.err = "nil"
    /\ Len(probes) > 1

(***************************************************************************)
(* Properties of the path selection of the ODAO collector.                  *)
(***************************************************************************)
\* C14: a Collect call takes the legacy path if and only if GetState returned
\* nil; a call that got a snapshot sends four gauges rendered from that one
\* snapshot (current block: its execution block; prices block and effective
\* RPL stake block: its prices block; latest reportable block: its reportable
\* block) and queries no chain client; a legacy call queries the chain. While
\* the call is at its sends, what it has sent is the beginning of these four.
C14_PathFollowsCache ==
    \A r \in Readers :
        rd[r].pc # "idle" =>
            /\ rd[r].path \in {"legacy", "atlas"}
            /\ rd[r].path = "legacy" <=> rd[r].latestState = NilState
            /\ rd[r].path = "atlas" =>
                  /\ rd[r].queries = 0
                  /\ rd[r].logged = <<>>
                  /\ rd[r].pc \in {"atlasSend", "done"} =>
                        rd[r].channel = SubSeq(
                          << Gauge("currentEth1Block",
                                   U64ToNat(rd[r].latestState.ElBlockNumber)),
                             Gauge("pricesBlock",
                                   U64ToNat(rd[r].latestState.NetworkDetails.PricesBlock)),
                             Gauge("effectiveRplStakeBlock",
                                   U64ToNat(rd[r].latestState.NetworkDetails.PricesBlock)),
                             Gauge("latestReportableBlock",
                                   U64ToNat(rd[r].latestState.NetworkDetails
                                                .LatestReportablePricesBlock)) >>,
                          1, Len(rd[r].channel))
                  /\ rd[r].pc = "done" => Len(rd[r].channel) = 4
                  /\ rd[r].pc \notin {"atlasSend", "done"} => rd[r].channel = <<>>
            /\ (rd[r].path = "legacy" /\ rd[r].pc = "done") => rd[r].queries = 3

\* One call has sent the gauges of a cached snapshot without a chain query,
\* another has sent gauges on the legacy path.
C14_Witness ==
    \E r, q \in Readers :
        /\ rd[r].pc = "done" /\ rd[r].path = "atlas"
        /\ rd[r].latestState # NilState
        /\ Len(rd[r].channel) = 4
        /\ rd[r].queries = 0
        /\ rd[q].pc = "done" /\ rd[q].path = "legacy"
        /\ rd[q].latestState = NilState
        /\ Len(rd[q].channel) = 4

(***************************************************************************)
(* Properties of the legacy collection.                                     *)
(***************************************************************************)
\* The tasks of the legacy collection whose read failed.
FailedTasks == {i \in Tasks : legacy.task[i] = "err"}

\* C15: the legacy collection is all or nothing: nothing is sent before the
\* three reads have all returned; when one of them has failed no gauge is
\* sent (-1 is never published) and the error is logged; when all have
\* succeeded exactly the four gauges are sent, in the order current block,
\* prices block, effective RPL stake block, latest reportable block; the sends
\* start only when all three have succeeded and proceed in that order.
C15_LegacyAllOrNothing ==
    /\ legacy.pc \notin {"sending", "done"} =>
          (legacy.channel = <<>> /\ legacy.logged = <<>>)
    /\ legacy.pc = "sending" =>
          /\ \A i \in Tasks : legacy.task[i] = "ok"
          /\ legacy.logged = <<>>
          /\ Len(legacy.channel) < 4
          /\ legacy.channel =
               SubSeq(<< Gauge("currentEth1Block", legacy.answers[1].value),
                         Gauge("pricesBlock", legacy.answers[2].value),
                         Gauge("effectiveRplStakeBlock", legacy.answers[2].value),
                         Gauge("latestReportableBlock", legacy.answers[3].value) >>,
                      1, Len(legacy.channel))
    /\ \A k \in 1..Len(legacy.channel) : legacy.channel[k].value # Sentinel
    /\ legacy.pc = "done" =>
          /\ \A i \in Tasks : legacy.task[i] \in {"ok", "err"}
          /\ FailedTasks # {} =>
                /\ legacy.channel = <<>>
                /\ Len(legacy.logged) = 1
                /\ legacy.logged[1] \in FailedTasks
          /\ FailedTasks = {} =>
                /\ legacy.logged = <<>>
                /\ legacy.channel =
                     << Gauge("currentEth1Block", legacy.answers[1].value),
                        Gauge("pricesBlock", legacy.answers[2].value),
                        Gauge("effectiveRplStakeBlock", legacy.answers[2].value),
                        Gauge("latestReportableBlock", legacy.answers[3].value) >>

\* A collection has returned without a gauge and with the error logged, two of
\* its reads having succeeded before the third failed.
C15_Witness ==
    /\ legacy.pc = "done"
    /\ Len(legacy.order) = 3
    /\ legacy.task[legacy.order[1]] = "ok"
    /\ legacy.task[legacy.order[2]] = "ok"
    /\ legacy.task[legacy.order[3]] = "err"
    /\ legacy.channel = <<>>
    /\ legacy.logged = <<legacy.order[3]>>

\* The task that assigns each result variable.
WriterOf ==
    [blockNumberFloat |-> 1, pricesBlockFloat |-> 2,
     effectiveRplStakeBlockFloat |-> 2, latestReportableBlockFloat |-> 3]

\* Each result variable has been assigned by its own task at most, and what
\* has been sent is what any order of the three tasks would have sent.
OneWriterEach ==
    /\ \A v \in DOMAIN legacy.writers : legacy.writers[v] \subseteq {WriterOf[v]}
    /\ \A v \in DOMAIN legacy.floats :
          legacy.floats[v] =
             IF legacy.task[WriterOf[v]] = "ok" THEN legacy.answers[WriterOf[v]].value
             ELSE IF legacy.pc = "idle" THEN 0 ELSE Sentinel
    /\ legacy.pc \in {"sending", "done"} =>
          \A o \in TaskOrders :
              legacy.channel = SubSeq(collectImpl_Legacy(legacy.answers, o).channel,
                                      1, Len(legacy.channel))
    /\ legacy.pc = "done" =>
          \A o \in TaskOrders :
              legacy.channel = collectImpl_Legacy(legacy.answers, o).channel

\* C17: the legacy collection has no data race: in every interleaving of its
\* three reads each of the four result variables is assigned by one task at
\* most (the block number by the first, the prices block and the effective RPL
\* stake block by the second, the latest reportable block by the third), and
\* the variables are read, for the sends, only when the three tasks have all
\* returned, so what is sent does not depend on the order of the reads.
C17_LegacyNoRace ==
    /\ []OneWriterEach
    /\ [][(legacy'.channel # legacy.channel /\ legacy'.channel # <<>>) =>
             /\ \A i \in Tasks : legacy.task[i] \in {"ok", "err"}
             /\ legacy'.floats = legacy.floats]_vars

\* The three reads have succeeded in the order third, second, first, with
\* three different answers, and the four gauges have been sent.
C17_Witness ==
    /\ legacy.pc = "done"
    /\ legacy.order = <<3, 2, 1>>
    /\ legacy.answers[1].value # legacy.answers[2].value
    /\ legacy.answers[2].value # legacy.answers[3].value
    /\ legacy.answers[1].value # legacy.answers[3].value
    /\ Len(legacy.channel) = 4
    /\ legacy.channel[1].value = legacy.answers[1].value

(***************************************************************************)
(* Properties of epochAt.                                                   *)
(***************************************************************************)
\* The epoch of the slot of time t: genesisEpoch + floor(slot(t) / slotsPerEpoch)
\* with slot(t) = floor((t - genesisTime) / secondsPerSlot).
EpochOfSlotAt(config, t) ==
    config.GenesisEpoch
      + (((t - config.GenesisTime) \div config.SecondsPerSlot) \div config.SlotsPerEpoch)

\* C16: with a config of positive seconds per slot and slots per epoch,
\* epochAt(config, t) is genesisEpoch + floor(slot(t) / slotsPerEpoch) for every
\* t at or after the genesis time, and for t before the genesis time it
\* reports a failure and returns no epoch.
C16_EpochAtFollowsSlotRule ==
    (epochCall.called /\ epochCall.config.SecondsPerSlot > 0
                      /\ epochCall.config.SlotsPerEpoch > 0) =>
        IF epochCall.time >= epochCall.config.GenesisTime
        THEN /\ epochCall.returned
             /\ epochCall.epoch = U64FromNat(EpochOfSlotAt(epochCall.config, epochCall.time))
        ELSE ~epochCall.returned

\* The half of the rule for times at or after the genesis time.
EpochAtFollowsSlotRuleFromGenesis ==
    (epochCall.called /\ epochCall.config.SecondsPerSlot > 0
                      /\ epochCall.config.SlotsPerEpoch > 0
                      /\ epochCall.time >= epochCall.config.GenesisTime) =>
        /\ epochCall.returned
        /\ epochCall.epoch = U64FromNat(EpochOfSlotAt(epochCall.config, epochCall.time))

(***************************************************************************)
(* Properties of the demand collector.                                      *)
(***************************************************************************)
\* The number of ether of an amount of the model.
EtherOf(wei) == CHOOSE k \in 0..MaxEth : Wei(k) = wei

\* The value a gauge has to carry for a read: -1 if the read failed, else the
\* amount in ether.
EmittedFor(ok, wei) == IF ok THEN EtherOf(wei) ELSE -1

\* The gauges a Collect has to have sent when all its reads have answered.
DemandGauges ==
    << [desc |-> "depositPoolBalance",
        value |-> EmittedFor(demand.answers.balance.ok,
                             demand.answers.balance.value)],
       [desc |-> "depositPoolExcess",
        value |-> EmittedFor(demand.answers.excess.ok,
                             demand.answers.excess.value)],
       [desc |-> "totalMinipoolCapacity",
        value |-> EmittedFor(demand.answers.capacity.ok,
                             demand.answers.capacity.Total)],
       [desc |-> "effectiveMinipoolCapacity",
        value |-> EmittedFor(demand.answers.capacity.ok,
                             demand.answers.capacity.Effective)] >>

\* The number of gauges a Collect has sent when it is at a position.
DemandSent ==
    CASE demand.pc \in {"idle", "GetBalance", "sendBalance"} -> 0
      [] demand.pc \in {"GetExcessBalance", "sendExcess"} -> 1
      [] demand.pc \in {"GetQueueCapacity", "sendTotal"} -> 2
      [] demand.pc = "sendEffective" -> 3
      [] demand.pc = "done" -> 4

\* C18: whatever reads of the demand collector succeed or fail, one Collect
\* sends exactly four gauges in the order balance, excess, total capacity,
\* effective capacity; the gauge of a failed read carries -1, and the value of
\* each gauge is given by its own read alone (total and effective capacity
\* come from the one capacity read). While the call runs, what it has sent is
\* the beginning of these four, as long as its position says.
C18_DemandFourGauges ==
    /\ Len(demand.channel) = DemandSent
    /\ demand.channel = SubSeq(DemandGauges, 1, DemandSent)
    /\ demand.pc = "done" =>
          /\ Len(demand.channel) = 4
          /\ (demand.channel[3].value = -1) <=> (demand.channel[4].value = -1)

\* The balance read has failed and the two others have succeeded: Collect has
\* gone on to its end and -1 is sent for the balance beside the amounts of the
\* others.
C18_Witness ==
    /\ demand.pc = "done"
    /\ ~demand.answers.balance.ok
    /\ demand.answers.excess.ok
    /\ demand.answers.capacity.ok
    /\ Len(demand.channel) = 4
    /\ demand.channel[1].value = -1
    /\ demand.channel[2].value = MaxEth
    /\ demand.channel[3].value = MaxEth
    /\ demand.channel[4].value = 1
    /\ Len(demand.logged) = 1

====
